---------------------------- MODULE Spec2Model ----------------------------
(***************************************************************************)
(* IEEE_754.py: the IEEE 754 single precision analyzer.                    *)
(*                                                                         *)
(* Text is a sequence of one-character strings.  A Python int is a record  *)
(* [neg, hi, lo] of two 16-bit limbs, value hi * 2^16 + lo, because TLC's  *)
(* integers are 32 bits wide and a pattern needs all 32 of them unsigned.  *)
(* A Python float (an IEEE 754 double) is a record [k, s, e, hi, lo]:      *)
(*   k = "fin"  : (-1)^s * 2^e * (1 + hi/2^23 + lo/2^52), e in -1022..1023 *)
(*   k = "sub"  : a subnormal double, (-1)^s * 2^-1022 * (hi/2^23+lo/2^52) *)
(*   k = "zero", "inf" : signed zero and infinity (e = hi = lo = 0)        *)
(*   k = "nan"  : fraction field hi * 2^29 + lo, hi's bit 22 the quiet bit *)
(* so that hi is the part of the fraction a single keeps (23 bits) and lo  *)
(* the 29 bits a single drops.                                             *)
(***************************************************************************)
EXTENDS Integers, Sequences, FiniteSets, TLC

VARIABLES quietsNaN, pc, call, ret, obj, shown, listing

vars == <<quietsNaN, pc, call, ret, obj, shown, listing>>

-----------------------------------------------------------------------------
(* Program constants.                                                      *)

BitWidth == 32
MantissaWidth == 23
Bias == 127
ExpAllOnes == 255

Limb == 2^16
TwoTo23 == 2^MantissaWidth
TwoTo28 == 2^28
TwoTo29 == 2^29

-----------------------------------------------------------------------------
(* Python's int(text, base), as CPython's PyLong_FromString computes it.   *)

IsSpace(c) == c \in {" ", "\t", "\n", "\r"}

\* _PyLong_DigitValue: 0-9, then a-z and A-Z as 10..35; 37 for anything else.
DigitValue(c) ==
    CASE c = "0" -> 0 [] c = "1" -> 1 [] c = "2" -> 2 [] c = "3" -> 3
      [] c = "4" -> 4 [] c = "5" -> 5 [] c = "6" -> 6 [] c = "7" -> 7
      [] c = "8" -> 8 [] c = "9" -> 9
      [] c \in {"a", "A"} -> 10 [] c \in {"b", "B"} -> 11
      [] c \in {"c", "C"} -> 12 [] c \in {"d", "D"} -> 13
      [] c \in {"e", "E"} -> 14 [] c \in {"f", "F"} -> 15
      [] c \in {"g", "G"} -> 16 [] c \in {"x", "X"} -> 33
      [] OTHER -> 37

PyZero == [neg |-> FALSE, hi |-> 0, lo |-> 0]

\* acc * base + d.  A magnitude of 2^32 or more is kept as hi = Limb: the
\* program hands every int to struct.pack('!I'), which refuses them all alike.
MulAdd(acc, base, d) ==
    LET x == acc.lo * base + d
        h == acc.hi * base + (x \div Limb)
    IN  [neg |-> FALSE, hi |-> IF h > Limb THEN Limb ELSE h, lo |-> x % Limb]

RECURSIVE SkipSpace(_, _)
SkipSpace(s, i) ==
    IF i <= Len(s) /\ IsSpace(s[i]) THEN SkipSpace(s, i + 1) ELSE i

\* long_from_binary_base's scan: digits below the base, single underscores
\* between them, no trailing underscore.  (The conjunct on n and acc is true;
\* it makes TLC evaluate both at every step instead of nesting them.)
RECURSIVE ScanDigits(_, _, _, _, _, _)
ScanDigits(s, i, base, prev, n, acc) ==
    IF i <= Len(s) /\ (s[i] = "_" \/ DigitValue(s[i]) < base)
                   /\ n + acc.hi >= 0
    THEN IF s[i] = "_"
         THEN IF prev = "_"
              THEN [ok |-> FALSE, pos |-> i, digits |-> n, val |-> acc]
              ELSE ScanDigits(s, i + 1, base, "_", n, acc)
         ELSE ScanDigits(s, i + 1, base, s[i], n + 1,
                         MulAdd(acc, base, DigitValue(s[i])))
    ELSE [ok |-> prev # "_", pos |-> i, digits |-> n, val |-> acc]

BasePrefixLetters(base) ==
    IF base = 16 THEN {"x", "X"} ELSE IF base = 2 THEN {"b", "B"} ELSE {}

ValueError == [ok |-> FALSE, exc |-> "ValueError"]
StructError == [ok |-> FALSE, exc |-> "struct.error"]
OverflowError == [ok |-> FALSE, exc |-> "OverflowError"]
Ok(v) == [ok |-> TRUE, val |-> v]

\* int(s, base): whitespace, one sign, one base prefix (and one underscore
\* after it), the digits, whitespace, the end.
PyInt(s, base) ==
    LET i0 == SkipSpace(s, 1)
        signed == i0 <= Len(s) /\ s[i0] \in {"+", "-"}
        minus == signed /\ s[i0] = "-"
        i1 == IF signed THEN i0 + 1 ELSE i0
        prefixed == /\ i1 + 1 <= Len(s)
                    /\ s[i1] = "0"
                    /\ s[i1 + 1] \in BasePrefixLetters(base)
        i2 == IF prefixed THEN i1 + 2 ELSE i1
        i3 == IF prefixed /\ i2 <= Len(s) /\ s[i2] = "_" THEN i2 + 1 ELSE i2
        sc == ScanDigits(s, i3, base, "", 0, PyZero)
    IN  IF i3 <= Len(s) /\ s[i3] = "_" THEN ValueError
        ELSE IF ~sc.ok \/ sc.digits = 0 THEN ValueError
        ELSE IF SkipSpace(s, sc.pos) <= Len(s) THEN ValueError
        ELSE Ok([sc.val EXCEPT !.neg = minus /\ (sc.val.hi # 0 \/ sc.val.lo # 0)])

\* str.strip()
RECURSIVE RStripEnd(_, _)
RStripEnd(s, j) == IF j >= 1 /\ IsSpace(s[j]) THEN RStripEnd(s, j - 1) ELSE j
Strip(s) ==
    LET i == SkipSpace(s, 1)
        j == RStripEnd(s, Len(s))
    IN  IF i > j THEN <<>> ELSE SubSeq(s, i, j)

\* str.startswith
StartsWith(s, p) == Len(s) >= Len(p) /\ SubSeq(s, 1, Len(p)) = p

-----------------------------------------------------------------------------
(* The struct module: '!I' is a big-endian unsigned 32-bit int, '!f' a     *)
(* big-endian IEEE 754 single.  Packed data is a tuple of four bytes.      *)

\* struct.pack('!I', n)
pack_I(n) ==
    IF n.neg \/ n.hi >= Limb THEN StructError
    ELSE Ok(<<n.hi \div 256, n.hi % 256, n.lo \div 256, n.lo % 256>>)

\* struct.unpack('!I', b)[0]
unpack_I(b) == [neg |-> FALSE, hi |-> b[1] * 256 + b[2], lo |-> b[3] * 256 + b[4]]

\* The four bytes of a single with sign s, exponent field ex and fraction m;
\* a fraction of 2^23 (a rounding carry) moves into the exponent field.
SingleBytes(s, ex, m) ==
    LET ee == ex + (m \div TwoTo23)
        mm == m % TwoTo23
    IN  <<s * 128 + (ee \div 2), (ee % 2) * 128 + (mm \div Limb),
          (mm \div 256) % 256, mm % 256>>

Float(k, s, e, hi, lo) == [k |-> k, s |-> s, e |-> e, hi |-> hi, lo |-> lo]

QuietBit == 2^(MantissaWidth - 1)
WithQuietBit(m) == IF (m \div QuietBit) % 2 = 1 THEN m ELSE m + QuietBit

\* Position of the highest set bit of m > 0.
RECURSIVE TopBit(_)
TopBit(m) == IF m < 2 THEN 0 ELSE 1 + TopBit(m \div 2)

\* unpack_f with the denormal case forgotten: a zero exponent field read by
\* the normal formula, implicit leading 1 and exponent -127.
unpack_f_normal_only(b, quiets) ==
    LET s == b[1] \div 128
        ex == (b[1] % 128) * 2 + (b[2] \div 128)
        m == (b[2] % 128) * Limb + b[3] * 256 + b[4]
    IN  IF ex = 255
        THEN IF m = 0 THEN Float("inf", s, 0, 0, 0)
             ELSE Float("nan", s, 0, IF quiets THEN WithQuietBit(m) ELSE m, 0)
        ELSE IF ex = 0 /\ m = 0 THEN Float("zero", s, 0, 0, 0)
        ELSE Float("fin", s, ex - 127, m, 0)

\* struct.unpack('!f', b)[0]: the single widened to a double, exactly.  A
\* signalling NaN is quieted by the widening on builds where quiets holds.
unpack_f(b, quiets) ==
    LET s == b[1] \div 128
        ex == (b[1] % 128) * 2 + (b[2] \div 128)
        m == (b[2] % 128) * Limb + b[3] * 256 + b[4]
    IN  IF ex = 255
        THEN IF m = 0 THEN Float("inf", s, 0, 0, 0)
             ELSE Float("nan", s, 0, IF quiets THEN WithQuietBit(m) ELSE m, 0)
        ELSE IF ex = 0
        THEN IF m = 0 THEN Float("zero", s, 0, 0, 0)
             ELSE LET t == TopBit(m)
                  IN  Float("fin", s, t - 149, (m - 2^t) * 2^(MantissaWidth - t), 0)
        ELSE Float("fin", s, ex - 127, m, 0)

\* Round to nearest, ties to even, of (q + r/2^t + a nonzero-or-zero tail).
RoundNearestEven(q, above, tie) ==
    IF above \/ (tie /\ q % 2 = 1) THEN q + 1 ELSE q

\* struct.pack('!f', v): the double narrowed to a single by the platform's
\* rounding; a finite double that rounds to infinity raises OverflowError.
pack_f(v, quiets) ==
    CASE v.k = "zero" -> Ok(SingleBytes(v.s, 0, 0))
      [] v.k = "sub"  -> Ok(SingleBytes(v.s, 0, 0))
      [] v.k = "inf"  -> Ok(SingleBytes(v.s, 255, 0))
      [] v.k = "nan"  ->
            Ok(SingleBytes(v.s, 255,
                 IF quiets \/ v.hi = 0 THEN WithQuietBit(v.hi) ELSE v.hi))
      [] v.k = "fin" /\ v.e > 127 -> OverflowError
      [] v.k = "fin" /\ v.e >= -126 /\ v.e <= 127 ->
            LET m == RoundNearestEven(v.hi, v.lo > TwoTo28, v.lo = TwoTo28)
            IN  IF v.e + 127 + (m \div TwoTo23) >= 255 THEN OverflowError
                ELSE Ok(SingleBytes(v.s, v.e + 127, m))
      [] v.k = "fin" /\ v.e < -126 ->
            LET t == -126 - v.e
                H == TwoTo23 + v.hi
            IN  IF t > 24 THEN Ok(SingleBytes(v.s, 0, 0))
                ELSE LET q == H \div 2^t
                         r == H % 2^t
                         half == 2^(t - 1)
                     IN  Ok(SingleBytes(v.s, 0,
                              RoundNearestEven(q,
                                 r > half \/ (r = half /\ v.lo > 0),
                                 r = half /\ v.lo = 0)))

-----------------------------------------------------------------------------
(* format(n, '032b') and hex(n).                                           *)

DigitChars == <<"0", "1", "2", "3", "4", "5", "6", "7", "8", "9",
                "a", "b", "c", "d", "e", "f">>

RECURSIVE NatDigits(_, _)
NatDigits(n, base) ==
    IF n < base THEN <<DigitChars[n + 1]>>
    ELSE Append(NatDigits(n \div base, base), DigitChars[(n % base) + 1])

RECURSIVE Repeat(_, _)
Repeat(c, n) == IF n <= 0 THEN <<>> ELSE <<c>> \o Repeat(c, n - 1)

ZeroFill(s, width) == Repeat("0", width - Len(s)) \o s

\* The digits of a non-negative int below 2^32 in base 2 or 16, no leading
\* zeros: the low limb is 16 bits, 16 or 4 digits of the base.
IntDigits(n, base) ==
    IF n.hi = 0 THEN NatDigits(n.lo, base)
    ELSE NatDigits(n.hi, base)
           \o ZeroFill(NatDigits(n.lo, base), IF base = 2 THEN 16 ELSE 4)

\* format(n, '032b')
Format032b(n) == ZeroFill(IntDigits(n, 2), BitWidth)

\* hex(n)
Hex(n) == <<"0", "x">> \o IntDigits(n, 16)

\* A small Python int as a number.
ToNat(n) == IF n.neg THEN -(n.hi * Limb + n.lo) ELSE n.hi * Limb + n.lo

\* s[a:b]
PySlice(s, a, b) == SubSeq(s, a + 1, IF b < Len(s) THEN b ELSE Len(s))

-----------------------------------------------------------------------------
(* class IEEE754SinglePrecision.  An object is a record of its attributes. *)

\* _get_binary_representation: pack as a single, unpack as an unsigned int,
\* format as 32 binary digits.  Raises what struct.pack raises.
get_binary_representation(value, quiets) ==
    LET packed == pack_f(value, quiets)
    IN  IF ~packed.ok THEN packed
        ELSE Ok(Format032b(unpack_I(packed.val)))

\* __init__ with the slices one short: exponent_bits [1:8], mantissa_bits
\* [8:32].
IEEE754SinglePrecision_short_slice(value, quiets) ==
    LET binary == get_binary_representation(value, quiets)
    IN  IF ~binary.ok THEN binary
        ELSE Ok([value |-> value,
                 binary_representation |-> binary.val,
                 sign_bit |-> PySlice(binary.val, 0, 1),
                 exponent_bits |-> PySlice(binary.val, 1, 8),
                 mantissa_bits |-> PySlice(binary.val, 8, 32)])

\* __init__
IEEE754SinglePrecision(value, quiets) ==
    LET binary == get_binary_representation(value, quiets)
    IN  IF ~binary.ok THEN binary
        ELSE Ok([value |-> value,
                 binary_representation |-> binary.val,
                 sign_bit |-> PySlice(binary.val, 0, 1),
                 exponent_bits |-> PySlice(binary.val, 1, 9),
                 mantissa_bits |-> PySlice(binary.val, 9, 32)])

get_sign(self) == ToNat(PyInt(self.sign_bit, 10).val)

get_exponent_raw(self) == ToNat(PyInt(self.exponent_bits, 2).val)

get_exponent_unbiased(self) == get_exponent_raw(self) - Bias

get_mantissa(self) == self.mantissa_bits

\* The loop of get_mantissa_value: fraction += 2 ** (-(i + 1)) for every
\* '1' at index i.  Every partial sum is a multiple of 2^-23 below 1, exact
\* in a double, so the sum is carried scaled by 2^23.
RECURSIVE FractionLoop(_, _, _)
FractionLoop(bits, i, fraction) ==
    IF i >= Len(bits) \/ fraction < 0 THEN fraction
    ELSE FractionLoop(bits, i + 1,
             IF bits[i + 1] = "1"
             THEN fraction + 2^(MantissaWidth - (i + 1))
             ELSE fraction)

RECURSIVE Reversed(_)
Reversed(t) == IF t = <<>> THEN <<>> ELSE Append(Reversed(Tail(t)), Head(t))

\* get_mantissa_value weighting the bits from the wrong end.
get_mantissa_value_reversed(self) ==
    Float("fin", 0, 0, FractionLoop(Reversed(self.mantissa_bits), 0, 0), 0)

\* 1.0 + fraction, a double in [1, 2).
get_mantissa_value(self) ==
    Float("fin", 0, 0, FractionLoop(self.mantissa_bits, 0, 0), 0)

\* is_special without the mantissa test of the zero-exponent branch.
is_special_no_denormal(self) ==
    LET exponent_raw == get_exponent_raw(self)
        mantissa_int == ToNat(PyInt(self.mantissa_bits, 2).val)
    IN  IF exponent_raw = ExpAllOnes
        THEN IF mantissa_int = 0 THEN "Infinity" ELSE "NaN"
        ELSE IF exponent_raw = 0 THEN "Zero"
        ELSE "None"

\* The tag, or "None" for Python's None.
is_special(self) ==
    LET exponent_raw == get_exponent_raw(self)
        mantissa_int == ToNat(PyInt(self.mantissa_bits, 2).val)
    IN  IF exponent_raw = ExpAllOnes
        THEN IF mantissa_int = 0 THEN "Infinity" ELSE "NaN"
        ELSE IF exponent_raw = 0
        THEN IF mantissa_int = 0 THEN "Zero" ELSE "Denormalized"
        ELSE "None"

NotComputed == Float("none", 0, 0, 0, 0)

\* display: what it prints, as a record.  A special value returns after its
\* tag is printed; otherwise sign, exponent, mantissa value, the calculated
\* value sign_multiplier * (2 ** exp_unbiased) * mantissa_val (a product by a
\* power of two, exact) and the hexadecimal form are printed.
display(self) ==
    LET special == is_special(self)
        sign == get_sign(self)
        exp_raw == get_exponent_raw(self)
        exp_unbiased == get_exponent_unbiased(self)
        mantissa_val == get_mantissa_value(self)
        calculated == [mantissa_val EXCEPT !.s = IF sign = 1 THEN 1 ELSE 0,
                                           !.e = @ + exp_unbiased]
    IN  IF special # "None"
        THEN [special |-> special, computed |-> FALSE,
              sign |-> sign, exp_raw |-> 0, exp_unbiased |-> 0,
              mantissa_val |-> NotComputed, calculated |-> NotComputed,
              hex_rep |-> <<>>]
        ELSE [special |-> "None", computed |-> TRUE,
              sign |-> sign, exp_raw |-> exp_raw, exp_unbiased |-> exp_unbiased,
              mantissa_val |-> mantissa_val, calculated |-> calculated,
              hex_rep |-> Hex(PyInt(self.binary_representation, 2).val)]

-----------------------------------------------------------------------------
(* The module's functions.                                                 *)

float_to_ieee754(value, quiets) == IEEE754SinglePrecision(value, quiets)

binary_to_float(binary_str, quiets) ==
    IF Len(binary_str) # BitWidth THEN ValueError
    ELSE LET as_int == PyInt(binary_str, 2)
         IN  IF ~as_int.ok THEN as_int
             ELSE LET packed == pack_I(as_int.val)
                  IN  IF ~packed.ok THEN packed
                      ELSE Ok(unpack_f(packed.val, quiets))

\* hex_to_float packing in little-endian order ('<I') and unpacking '!f'.
hex_to_float_little_endian(hex_str, quiets) ==
    LET stripped == IF StartsWith(hex_str, <<"0", "x">>)
                       \/ StartsWith(hex_str, <<"0", "X">>)
                    THEN PySlice(hex_str, 2, Len(hex_str))
                    ELSE hex_str
        as_int == PyInt(stripped, 16)
    IN  IF ~as_int.ok THEN as_int
        ELSE LET packed == pack_I(as_int.val)
             IN  IF ~packed.ok THEN packed
                 ELSE Ok(unpack_f(<<packed.val[4], packed.val[3],
                                    packed.val[2], packed.val[1]>>, quiets))

hex_to_float(hex_str, quiets) ==
    LET stripped == IF StartsWith(hex_str, <<"0", "x">>)
                       \/ StartsWith(hex_str, <<"0", "X">>)
                    THEN PySlice(hex_str, 2, Len(hex_str))
                    ELSE hex_str
        as_int == PyInt(stripped, 16)
    IN  IF ~as_int.ok THEN as_int
        ELSE LET packed == pack_I(as_int.val)
             IN  IF ~packed.ok THEN packed
                 ELSE Ok(unpack_f(packed.val, quiets))

-----------------------------------------------------------------------------
(* The inputs the functions are called with: sample patterns and doubles   *)
(* around every boundary of the format, and texts rendered from them.      *)

ExpEdge == 1
MantEdge == 1
MaxJunk == 2
MaxExtraZeros == 1

Around(x, r) == (x - r)..(x + r)

ExpSamples == (0..ExpEdge) \cup Around(Bias, ExpEdge) \cup ((ExpAllOnes - ExpEdge)..ExpAllOnes)

\* The fraction of the prompt's example 0x40490FDB (line 262).
ExampleFraction == 4788187

MantSamples ==
    (0..MantEdge) \cup ((TwoTo23 - 1 - MantEdge)..(TwoTo23 - 1))
        \cup {2^i : i \in 0..(MantissaWidth - 1)}
        \cup {TwoTo23 - 2^i : i \in 0..(MantissaWidth - 1)}
        \cup {ExampleFraction}

\* A pattern is <<sign, exponent field, fraction>>.
Patterns == {0, 1} \X ExpSamples \X MantSamples

CorePatterns == {<<0, 0, 0>>, <<0, 128, ExampleFraction>>, <<1, ExpAllOnes, TwoTo23 - 1>>}

SpoiledPatterns == {<<0, 0, 0>>, <<0, 128, ExampleFraction>>}

\* n in w digits of the base, most significant first.
RECURSIVE FixedDigits(_, _, _, _)
FixedDigits(n, w, base, chars) ==
    IF w = 0 THEN <<>>
    ELSE Append(FixedDigits(n \div base, w - 1, base, chars), chars[(n % base) + 1])

UpperDigitChars == <<"0", "1", "2", "3", "4", "5", "6", "7", "8", "9",
                     "A", "B", "C", "D", "E", "F">>

\* The 32 binary digits of a pattern.
BinText(p) ==
    FixedDigits(p[1], 1, 2, DigitChars) \o FixedDigits(p[2], 8, 2, DigitChars)
        \o FixedDigits(p[3], 23, 2, DigitChars)

\* The 8 hexadecimal digits of a pattern.
HexDigits8(p, chars) ==
    FixedDigits(p[1] * 128 + (p[2] \div 2), 2, 16, chars)
        \o FixedDigits((p[2] % 2) * 128 + (p[3] \div Limb), 2, 16, chars)
        \o FixedDigits(p[3] % Limb, 4, 16, chars)

RECURSIVE DropZeros(_)
DropZeros(s) == IF Len(s) > 1 /\ s[1] = "0" THEN DropZeros(Tail(s)) ELSE s

HexPrefixes == {<<>>, <<"0", "x">>, <<"0", "X">>}

\* The hexadecimal texts of a pattern: either prefix or none, either letter
\* case, leading zeros dropped, kept, or added.
HexTexts(p) ==
    {pre \o zeros \o body :
        pre \in HexPrefixes,
        zeros \in {Repeat("0", k) : k \in 0..MaxExtraZeros},
        body \in UNION {{HexDigits8(p, c), DropZeros(HexDigits8(p, c))} :
                          c \in {DigitChars, UpperDigitChars}}}

JunkChars == {"0", "1", "2", "b", "x", "g", "+", "-", "_", " "}

JunkSeqs == UNION {[1..n -> JunkChars] : n \in 1..MaxJunk}

\* A text with junk put before it, put after it, or written over its start
\* or its end.
Spoiled(t, j) ==
    {j \o t, t \o j}
        \cup (IF Len(j) <= Len(t)
              THEN {j \o SubSeq(t, Len(j) + 1, Len(t)),
                    SubSeq(t, 1, Len(t) - Len(j)) \o j}
              ELSE {})

\* Texts for binary_to_float: the 32 digits of every sample pattern; texts
\* of other lengths; spoiled texts.
BinCalls ==
    {[text |-> BinText(p), of |-> p] : p \in Patterns}
        \cup {[text |-> t, of |-> <<>>] :
                t \in {<<>>, <<"1", "0", "1">>}
                      \cup UNION {{Tail(BinText(p)), <<"0">> \o BinText(p),
                                   BinText(p) \o <<"1">>} : p \in CorePatterns}
                      \cup UNION {Spoiled(BinText(p), j) :
                                    p \in SpoiledPatterns, j \in JunkSeqs}}

\* Texts for hex_to_float: the hexadecimal texts of every sample pattern;
\* texts of nine digits; spoiled texts behind either prefix or none.
HexCalls ==
    UNION {{[text |-> t, of |-> p] : t \in HexTexts(p)} : p \in Patterns}
        \cup {[text |-> t, of |-> <<>>] :
                t \in {<<>>, <<"0", "x">>}
                      \cup {pre \o <<d>> \o HexDigits8(p, UpperDigitChars) :
                              pre \in HexPrefixes, d \in {"1", "F"}, p \in CorePatterns}
                      \cup UNION {{pre \o u : u \in Spoiled(DropZeros(HexDigits8(p, DigitChars)), j)} :
                                    pre \in {<<>>, <<"0", "x">>},
                                    p \in SpoiledPatterns, j \in JunkSeqs}}

DblExpSamples ==
    {-1022, -138, 1023} \cup Around(-149, ExpEdge) \cup Around(-126, ExpEdge)
        \cup Around(0, ExpEdge) \cup Around(Bias, ExpEdge)

LoSamples == {0, 1, TwoTo28 - 1, TwoTo28, TwoTo28 + 1, TwoTo29 - 1}

\* Values for float_to_ieee754: finite doubles on both sides of every
\* rounding and range boundary of a single, subnormal doubles, signed zeros
\* and infinities, quiet and signalling NaNs.
FloatInputs ==
    {Float("fin", s, e, hi, lo) :
        s \in {0, 1}, e \in DblExpSamples, hi \in MantSamples, lo \in LoSamples}
    \cup {Float("sub", s, 0, hi, lo) :
            s \in {0, 1}, hi \in {0, 1, TwoTo23 - 1}, lo \in {1, TwoTo29 - 1}}
    \cup {Float(k, s, 0, 0, 0) : k \in {"zero", "inf"}, s \in {0, 1}}
    \cup {Float("nan", s, 0, hi, lo) :
            s \in {0, 1}, hi \in {1, QuietBit, QuietBit + 1, TwoTo23 - 1}, lo \in {0, 1}}
    \cup {Float("nan", s, 0, 0, 1) : s \in {0, 1}}

-----------------------------------------------------------------------------
(* A client of the module: one call of float_to_ieee754, binary_to_float   *)
(* or hex_to_float, then what interactive_menu does with the result.       *)

NoFloat == Float("none", 0, 0, 0, 0)
NoObj == [value |-> NoFloat, binary_representation |-> <<>>, sign_bit |-> <<>>,
          exponent_bits |-> <<>>, mantissa_bits |-> <<>>]
NotShown == [special |-> "", computed |-> FALSE, sign |-> 0, exp_raw |-> 0,
             exp_unbiased |-> 0, mantissa_val |-> NotComputed,
             calculated |-> NotComputed, hex_rep |-> <<>>]
Returned(r) == [ok |-> r.ok, exc |-> IF r.ok THEN "" ELSE r.exc,
                val |-> IF r.ok THEN r.val ELSE NoFloat]
NoCall == [fn |-> "", value |-> NoFloat, text |-> <<>>, of |-> <<>>]

Init ==
    /\ quietsNaN \in BOOLEAN
    /\ pc = "idle"
    /\ call = NoCall
    /\ ret = Returned(Ok(NoFloat))
    /\ obj = NoObj
    /\ shown = NotShown
    /\ listing = <<>>

CallFloatToIeee754 ==
    /\ pc = "idle"
    /\ \E v \in FloatInputs :
         LET r == float_to_ieee754(v, quietsNaN)
         IN  /\ obj' = IF r.ok THEN r.val ELSE NoObj
             /\ ret' = IF r.ok THEN Returned(Ok(NoFloat)) ELSE Returned(r)
             /\ call' = [NoCall EXCEPT !.fn = "float_to_ieee754", !.value = v]
    /\ pc' = "returned"
    /\ UNCHANGED <<quietsNaN, shown, listing>>

CallBinaryToFloat ==
    /\ pc = "idle"
    /\ \E c \in BinCalls :
         /\ ret' = Returned(binary_to_float(c.text, quietsNaN))
         /\ call' = [NoCall EXCEPT !.fn = "binary_to_float",
                                   !.text = c.text, !.of = c.of]
    /\ pc' = "returned"
    /\ UNCHANGED <<quietsNaN, obj, shown, listing>>

CallHexToFloat ==
    /\ pc = "idle"
    /\ \E c \in HexCalls :
         /\ ret' = Returned(hex_to_float(c.text, quietsNaN))
         /\ call' = [NoCall EXCEPT !.fn = "hex_to_float",
                                   !.text = c.text, !.of = c.of]
    /\ pc' = "returned"
    /\ UNCHANGED <<quietsNaN, obj, shown, listing>>

\* ieee = float_to_ieee754(value) on a decoded value (lines 256, 266).
Reencode ==
    /\ pc = "returned"
    /\ call.fn \in {"binary_to_float", "hex_to_float"}
    /\ ret.ok
    /\ LET r == float_to_ieee754(ret.val, quietsNaN)
       IN  /\ obj' = IF r.ok THEN r.val ELSE NoObj
           /\ pc' = IF r.ok THEN "encoded" ELSE "raised"
    /\ UNCHANGED <<quietsNaN, call, ret, shown, listing>>

\* ieee.display()
CallDisplay ==
    /\ pc \in {"returned", "encoded"}
    /\ obj # NoObj
    /\ shown' = display(obj)
    /\ pc' = "displayed"
    /\ UNCHANGED <<quietsNaN, call, ret, obj, listing>>

Next ==
    \/ CallFloatToIeee754
    \/ CallBinaryToFloat
    \/ CallHexToFloat
    \/ Reencode
    \/ CallDisplay

Spec == Init /\ [][Next]_vars

-----------------------------------------------------------------------------
(* interactive_menu: one action per branch of the loop body, each the      *)
(* whole iteration from the prompt back to the prompt.                     *)

\* float(text) on the literals the menu is given here (their doubles are
\* exact); any other text of DecimalTexts is no float literal: ValueError.
FloatLiterals ==
    {<<<<"0", ".", "0">>, Float("zero", 0, 0, 0, 0)>>,
     <<<<"-", "0", ".", "0">>, Float("zero", 1, 0, 0, 0)>>,
     <<<<"1", ".", "0">>, Float("fin", 0, 0, 0, 0)>>,
     <<<<"-", "1", ".", "0">>, Float("fin", 1, 0, 0, 0)>>,
     <<<<"2", ".", "0">>, Float("fin", 0, 1, 0, 0)>>,
     <<<<"0", ".", "5">>, Float("fin", 0, -1, 0, 0)>>,
     <<<<"3", ".", "1", "4", "1", "5", "9">>, Float("fin", 0, 1, 4788175, 270239342)>>,
     <<<<"-", "2", "7", "3", ".", "1", "5">>, Float("fin", 1, 8, 561971, 107374182)>>,
     <<<<"1", "2", "3", ".", "4", "5", "6">>, Float("fin", 0, 6, 7793016, 446676599)>>,
     <<<<"1", "e", "3", "9">>, Float("fin", 0, 129, 3937343, 345786909)>>,
     <<<<"-", "1", "e", "3", "9">>, Float("fin", 1, 129, 3937343, 345786909)>>,
     <<<<"1", "e", "-", "4", "6">>, Float("fin", 0, -153, 1189489, 70014305)>>,
     <<<<"5", "e", "-", "3", "2", "4">>, Float("sub", 0, 0, 0, 1)>>,
     <<<<"1", "e", "4", "0", "0">>, Float("inf", 0, 0, 0, 0)>>,
     <<<<"i", "n", "f">>, Float("inf", 0, 0, 0, 0)>>,
     <<<<"-", "i", "n", "f">>, Float("inf", 1, 0, 0, 0)>>,
     <<<<"n", "a", "n">>, Float("nan", 0, 0, QuietBit, 0)>>}

PyFloat(text) ==
    LET t == Strip(text)
        hits == {l \in FloatLiterals : l[1] = t}
    IN  IF hits = {} THEN ValueError ELSE Ok((CHOOSE l \in hits : TRUE)[2])

DecimalTexts ==
    {l[1] : l \in FloatLiterals}
        \cup {<<" ", "1", ".", "0", " ">>, <<" ", "1", "e", "3", "9">>}
        \cup {<<>>, <<"a", "b", "c">>, <<"0", "x", "1", "0">>, <<"1", " ", "0">>,
              <<"1", ".", "0", ".", "0">>, <<"-">>}

ChoiceLines ==
    {<<c>> : c \in {"0", "1", "2", "3", "4", "5", "6", "x"}}
        \cup {<<>>, <<"1", "0">>, <<" ", "0", " ">>, <<" ", "4">>}

Padded(t) == {t, <<" ">> \o t \o <<" ">>}

OneJunk == {<<c>> : c \in {"2", "g", "x", "+", "-", "_"}}

MenuBinTexts ==
    UNION {Padded(BinText(p)) : p \in CorePatterns}
        \cup UNION {Spoiled(BinText(<<0, 128, ExampleFraction>>), j) : j \in OneJunk}
        \cup {<<>>, <<"1", "0", "1">>}

MenuHexTexts ==
    UNION {Padded(<<"0", "x">> \o HexDigits8(p, UpperDigitChars)) : p \in CorePatterns}
        \cup UNION {{pre \o u : u \in Spoiled(HexDigits8(<<0, 128, ExampleFraction>>, DigitChars), j)} :
                      pre \in {<<"0", "x">>}, j \in OneJunk}
        \cup {<<>>, <<"0", "x">>}

\* Whether `except handler:` catches exc: ValueError, OverflowError and
\* struct.error are all subclasses of Exception, and none of another.
Catches(handler, exc) == handler = "Exception" \/ handler = exc

MenuInit ==
    /\ quietsNaN \in BOOLEAN
    /\ pc = "menu"
    /\ call = NoCall
    /\ ret = Returned(Ok(NoFloat))
    /\ obj = NoObj
    /\ shown = NotShown
    /\ listing = <<>>

\* The body of a try block that converts and displays: the result returned
\* to the loop, or the exception raised out of it.
Analyze(value) ==
    IF ~value.ok THEN [r |-> Returned(value), o |-> NoObj, d |-> NotShown]
    ELSE LET ieee == float_to_ieee754(value.val, quietsNaN)
         IN  IF ~ieee.ok THEN [r |-> Returned(ieee), o |-> NoObj, d |-> NotShown]
             ELSE [r |-> Returned(value), o |-> ieee.val, d |-> display(ieee.val)]

Iteration(choice, text, a, handler) ==
    /\ call' = [NoCall EXCEPT !.fn = choice, !.text = text]
    /\ ret' = a.r
    /\ obj' = a.o
    /\ shown' = a.d
    /\ listing' = <<>>
    /\ pc' = IF a.r.ok \/ Catches(handler, a.r.exc) THEN "menu" ELSE "crashed"
    /\ UNCHANGED quietsNaN

\* choice == "1"
MenuDecimal ==
    /\ pc = "menu"
    /\ \E line \in ChoiceLines, text \in DecimalTexts :
         /\ Strip(line) = <<"1">>
         /\ \E a \in {Analyze(PyFloat(text))} :
              Iteration("1", text, a, "ValueError")

\* choice == "2"
MenuBinary ==
    /\ pc = "menu"
    /\ \E line \in ChoiceLines, text \in MenuBinTexts :
         /\ Strip(line) = <<"2">>
         /\ \E a \in {Analyze(binary_to_float(Strip(text), quietsNaN))} :
              Iteration("2", text, a, "Exception")

\* choice == "3"
MenuHex ==
    /\ pc = "menu"
    /\ \E line \in ChoiceLines, text \in MenuHexTexts :
         /\ Strip(line) = <<"3">>
         /\ \E a \in {Analyze(hex_to_float(Strip(text), quietsNaN))} :
              Iteration("3", text, a, "Exception")

\* The loop of show_special_values and of show_common_examples: each value
\* is encoded and its binary form printed, outside any try block.
RECURSIVE Show(_, _)
Show(values, quiets) ==
    IF values = <<>> THEN Ok(<<>>)
    ELSE LET ieee == float_to_ieee754(Head(values), quiets)
             rest == Show(Tail(values), quiets)
         IN  IF ~ieee.ok THEN ieee
             ELSE IF ~rest.ok THEN rest
             ELSE Ok(<<ieee.val.binary_representation>> \o rest.val)

special_values ==
    <<Float("zero", 0, 0, 0, 0), Float("zero", 1, 0, 0, 0),
      Float("inf", 0, 0, 0, 0), Float("inf", 1, 0, 0, 0),
      Float("nan", 0, 0, QuietBit, 0)>>

examples ==
    <<Float("fin", 0, 0, 0, 0), Float("fin", 1, 0, 0, 0), Float("fin", 0, 1, 0, 0),
      Float("fin", 0, -1, 0, 0), Float("fin", 0, 1, 4788175, 270239342),
      Float("fin", 1, 8, 561971, 107374182), Float("fin", 0, 6, 7793016, 446676599)>>

Listed(choice, values) ==
    LET r == Show(values, quietsNaN)
    IN  /\ call' = [NoCall EXCEPT !.fn = choice]
        /\ ret' = IF r.ok THEN Returned(Ok(NoFloat)) ELSE Returned(r)
        /\ listing' = IF r.ok THEN r.val ELSE <<>>
        /\ obj' = NoObj
        /\ shown' = NotShown
        /\ pc' = IF r.ok THEN "menu" ELSE "crashed"
        /\ UNCHANGED quietsNaN

\* choice == "4"
MenuSpecialValues ==
    /\ pc = "menu"
    /\ \E line \in ChoiceLines : Strip(line) = <<"4">>
    /\ Listed("4", special_values)

\* choice == "5"
MenuCommonExamples ==
    /\ pc = "menu"
    /\ \E line \in ChoiceLines : Strip(line) = <<"5">>
    /\ Listed("5", examples)

\* choice == "0"
MenuExit ==
    /\ pc = "menu"
    /\ \E line \in ChoiceLines : Strip(line) = <<"0">>
    /\ pc' = "exited"
    /\ call' = [NoCall EXCEPT !.fn = "0"]
    /\ ret' = Returned(Ok(NoFloat))
    /\ obj' = NoObj
    /\ shown' = NotShown
    /\ listing' = <<>>
    /\ UNCHANGED quietsNaN

\* else: "Invalid choice. Please try again."
MenuInvalidChoice ==
    /\ pc = "menu"
    /\ \E line \in ChoiceLines :
         /\ Strip(line) \notin {<<c>> : c \in {"0", "1", "2", "3", "4", "5"}}
         /\ call' = [NoCall EXCEPT !.fn = "invalid", !.text = Strip(line)]
    /\ ret' = Returned(Ok(NoFloat))
    /\ obj' = NoObj
    /\ shown' = NotShown
    /\ listing' = <<>>
    /\ pc' = "menu"
    /\ UNCHANGED quietsNaN

MenuNext ==
    \/ MenuDecimal
    \/ MenuBinary
    \/ MenuHex
    \/ MenuSpecialValues
    \/ MenuCommonExamples
    \/ MenuExit
    \/ MenuInvalidChoice

MenuSpec == MenuInit /\ [][MenuNext]_vars
-----------------------------------------------------------------------------
(* Properties.                                                             *)

\* The 32-bit pattern an object holds: as_int of _get_binary_representation.
PatternOf(o) == unpack_I(pack_f(o.value, quietsNaN).val)

mantissa_int(o) == ToNat(PyInt(get_mantissa(o), 2).val)

AllBinary(t) == \A i \in 1..Len(t) : t[i] \in {"0", "1"}

\* C1: an object's binary_representation is exactly 32 characters of 0/1,
\* split most-significant-first into fields of 1, 8 and 23 characters, and
\* sign * 2^31 + exponent * 2^23 + mantissa is the pattern it holds, with sign
\* in {0,1}, exponent in 0..255, mantissa in 0..2^23-1.  (The sum is compared
\* limb by limb: its part above 2^16 and its part below.)
FieldPartition ==
    obj # NoObj =>
        LET p == PatternOf(obj)
            sign == get_sign(obj)
            exponent == get_exponent_raw(obj)
            mantissa == mantissa_int(obj)
        IN  /\ Len(obj.binary_representation) = 32
            /\ AllBinary(obj.binary_representation)
            /\ Len(obj.sign_bit) = 1
            /\ Len(obj.exponent_bits) = 8
            /\ Len(get_mantissa(obj)) = 23
            /\ obj.sign_bit \o obj.exponent_bits \o get_mantissa(obj)
                 = obj.binary_representation
            /\ sign \in {0, 1}
            /\ exponent \in 0..255
            /\ mantissa \in 0..(2^23 - 1)
            /\ sign * 2^15 + exponent * 2^7 + (mantissa \div 2^16) = p.hi
            /\ mantissa % 2^16 = p.lo

\* C1's case: an object holding 0xC0490FDB, every field nonzero.
FieldPartitionWitness ==
    /\ obj # NoObj
    /\ get_sign(obj) = 1
    /\ get_exponent_raw(obj) = 128
    /\ mantissa_int(obj) = ExampleFraction

ClassTags == {"Infinity", "NaN", "Zero", "Denormalized", "None"}

ClassHolds(tag, exponent, mantissa) ==
    CASE tag = "Infinity" -> exponent = 255 /\ mantissa = 0
      [] tag = "NaN" -> exponent = 255 /\ mantissa # 0
      [] tag = "Zero" -> exponent = 0 /\ mantissa = 0
      [] tag = "Denormalized" -> exponent = 0 /\ mantissa # 0
      [] tag = "None" -> exponent \notin {0, 255}

FlipSign(o) == [o EXCEPT !.sign_bit = IF @ = <<"0">> THEN <<"1">> ELSE <<"0">>]

\* C2: is_special returns exactly one tag, the one whose case of (exponent,
\* mantissa) holds (None for Normal); exactly one of the five cases holds;
\* and the tag is the same with the sign bit flipped.
ClassificationTotal ==
    obj # NoObj =>
        LET exponent == get_exponent_raw(obj)
            mantissa == mantissa_int(obj)
        IN  /\ Cardinality({t \in ClassTags : ClassHolds(t, exponent, mantissa)}) = 1
            /\ is_special(obj) \in ClassTags
            /\ ClassHolds(is_special(obj), exponent, mantissa)
            /\ is_special(FlipSign(obj)) = is_special(obj)

\* C2's case: a negative denormalized pattern is classified.
ClassificationWitness ==
    /\ obj # NoObj
    /\ get_sign(obj) = 1
    /\ get_exponent_raw(obj) = 0
    /\ mantissa_int(obj) = 1
    /\ is_special(obj) = "Denormalized"

\* C3: binary_to_float fails on every text that is not exactly 32 characters
\* of 0/1, with the format error (ValueError), returning no value.
BinaryRejectsMalformed ==
    (call.fn = "binary_to_float"
        /\ ~(Len(call.text) = 32 /\ AllBinary(call.text)))
    => (~ret.ok /\ ret.exc = "ValueError")

IsHexDigit(c) == DigitValue(c) < 16

RECURSIVE Base16(_, _)
Base16(t, n) ==
    IF n = 0 THEN PyZero ELSE MulAdd(Base16(t, n - 1), 16, DigitValue(t[n]))

AfterOnePrefix(t) ==
    IF Len(t) >= 2 /\ t[1] = "0" /\ t[2] \in {"x", "X"}
    THEN SubSeq(t, 3, Len(t)) ELSE t

\* C4: hex_to_float strips at most one 0x/0X prefix, fails whenever a
\* remaining character is no hexadecimal digit or the value exceeds
\* 0xFFFFFFFF, and every accepted text yields the pattern of its base-16
\* value.
HexRejectsMalformed ==
    call.fn = "hex_to_float" =>
        LET rest == AfterOnePrefix(call.text)
            allHex == \A i \in 1..Len(rest) : IsHexDigit(rest[i])
            value == Base16(rest, Len(rest))
        IN  /\ ~allHex => ~ret.ok
            /\ (allHex /\ value.hi >= Limb) => ~ret.ok
            /\ ret.ok => /\ allHex
                         /\ value.hi < Limb
                         /\ ret.val = unpack_f(pack_I(value).val, quietsNaN)

\* C5: float_to_ieee754 never fails: for every float value it returns an
\* object with a 32-bit pattern and raises no error.
EncodeNeverFails ==
    call.fn = "float_to_ieee754" =>
        /\ ret.ok
        /\ obj # NoObj
        /\ Len(obj.binary_representation) = 32

\* A double that is a finite single-precision value: a signed zero, or
\* nothing in the 29 low bits and either a normal single's exponent or a
\* denormal's with the bits below 2^-149 clear.
IsFiniteSingle(v) ==
    \/ v.k = "zero"
    \/ /\ v.k = "fin"
       /\ v.lo = 0
       /\ \/ v.e \in -126..127
          \/ v.e \in -149..-127 /\ v.hi % 2^(-126 - v.e) = 0

\* C6: for every finite single-precision value v, binary_to_float of the 32
\* characters v is encoded to is v, bit for bit (sign of zero included); and
\* encoding what binary_to_float decoded from the 32 characters of a finite
\* pattern gives those 32 characters back.
RoundTrip ==
    /\ (call.fn = "float_to_ieee754" /\ IsFiniteSingle(call.value)) =>
          /\ ret.ok
          /\ obj # NoObj
          /\ binary_to_float(obj.binary_representation, quietsNaN)
               = Ok(call.value)
    /\ (call.fn = "binary_to_float" /\ call.of # <<>>
           /\ call.of[2] # 255 /\ pc = "encoded") =>
          /\ ret.ok
          /\ IsFiniteSingle(ret.val)
          /\ obj.binary_representation = call.text

\* C6's case: a negative denormal single has been encoded.
RoundTripWitness ==
    /\ call.fn = "float_to_ieee754"
    /\ IsFiniteSingle(call.value)
    /\ call.value.k = "fin" /\ call.value.s = 1 /\ call.value.e = -138
    /\ obj # NoObj

\* The value of a denormalized pattern, (-1)^sign * 2^-126 * (mantissa/2^23),
\* as a double.
DenormalValue(sign, mantissa) ==
    LET t == TopBit(mantissa)
    IN  Float("fin", sign, t - 149, (mantissa - 2^t) * 2^(23 - t), 0)

\* C7: display computes (-1)^sign * 2^(exponent-127) * (1 + mantissa/2^23)
\* for a Normal pattern, (-1)^sign * 2^-126 * (mantissa/2^23) for a
\* Denormalized one, and nothing for Zero, Infinity and NaN.
ReconstructionByClass ==
    pc = "displayed" =>
        LET sign == get_sign(obj)
            exponent == get_exponent_raw(obj)
            mantissa == mantissa_int(obj)
        IN  /\ ClassHolds("None", exponent, mantissa) =>
                 /\ shown.computed
                 /\ shown.calculated = Float("fin", sign, exponent - 127, mantissa, 0)
            /\ ClassHolds("Denormalized", exponent, mantissa) =>
                 /\ shown.computed
                 /\ shown.calculated = DenormalValue(sign, mantissa)
            /\ (exponent = 255 \/ (exponent = 0 /\ mantissa = 0)) =>
                 ~shown.computed

\* C8: for every pattern p, hex_to_float of a hexadecimal text of p (either
\* prefix or none, either letter case, leading zeros or none) returns what
\* binary_to_float returns for the 32 binary digits of p.
HexBinaryEquivalence ==
    (call.fn = "hex_to_float" /\ call.of # <<>>) =>
        /\ ret.ok
        /\ ret = Returned(binary_to_float(BinText(call.of), quietsNaN))

\* C8's case: 0x40490FDB has been decoded.
HexBinaryWitness ==
    /\ call.fn = "hex_to_float"
    /\ call.text = <<"0", "x", "4", "0", "4", "9", "0", "F", "D", "B">>
    /\ call.of = <<0, 128, ExampleFraction>>
    /\ ret.ok

RECURSIVE BitSum(_, _)
BitSum(bits, i) ==
    IF i = 0 THEN 0
    ELSE BitSum(bits, i - 1) + (IF bits[i] = "1" THEN 2^(23 - i) ELSE 0)

\* C9: get_mantissa_value is 1 + the sum over i in 1..23 of bit_i * 2^-i,
\* whatever the classification: scaled by 2^23 it is 2^23 + int(mantissa, 2);
\* it lies in [1, 2) and is 1.0 exactly when the mantissa is all zeros; and
\* get_exponent_unbiased is the raw exponent minus 127, in -127..128.
MantissaValue ==
    obj # NoObj =>
        LET mv == get_mantissa_value(obj)
            p == PatternOf(obj)
            fraction == (p.hi % 128) * 2^16 + p.lo
            exponent == (p.hi \div 128) % 256
        IN  /\ mv = Float("fin", 0, 0, fraction, 0)
            /\ fraction = BitSum(get_mantissa(obj), 23)
            /\ fraction = mantissa_int(obj)
            /\ fraction \in 0..(2^23 - 1)
            /\ (mv = Float("fin", 0, 0, 0, 0))
                 <=> (get_mantissa(obj) = Repeat("0", 23))
            /\ get_exponent_unbiased(obj) = exponent - 127
            /\ get_exponent_unbiased(obj) \in -127..128

\* C9's case: the mantissa value of a denormalized pattern with every
\* mantissa bit set.
MantissaValueWitness ==
    /\ obj # NoObj
    /\ is_special(obj) = "Denormalized"
    /\ get_mantissa(obj) = Repeat("1", 23)
    /\ get_mantissa_value(obj) = Float("fin", 0, 0, 2^23 - 1, 0)

\* C10: in interactive_menu no input is fatal: every error raised while
\* converting or analysing is caught, the prompt is shown again, and the
\* loop ends only on the choice '0'.
MenuNeverFatal ==
    /\ pc \in {"menu", "exited"}
    /\ pc = "exited" => call.fn = "0"
=============================================================================
